---- MODULE Spec2Model ----
(***************************************************************************)
(* Replica coordination core of acebase-ring (src/src/server.ts): startup  *)
(* checks, the connection registry (connectTo and its ready / disconnect   *)
(* callbacks), buildRing, the reconciler checkRemoved, the router          *)
(* replicaFor, the populator populateRing and the sampler testRing.        *)
(*                                                                         *)
(* The program is single threaded: one action is one run of the event loop *)
(* from a timer, an event or a resolved I/O promise up to the next await   *)
(* that really suspends.  "await logMsg(..)" and "await connectTo(..)"     *)
(* resolve in microtasks of the same run and suspend nothing.              *)
(***************************************************************************)
EXTENDS Integers, Sequences, FiniteSets, TLC

VARIABLES
    phase,          \* "boot" | "exited" (process.exit(1)) | "running"
    serverName,     \* argv.name
    adminPassword,  \* process.env.DB_ADMIN_PASSWORD
    clients,        \* every AceBaseClient made by connectTo, in creation order
    connections,    \* Map<string, AceBaseClient>: node -> index in clients, 0 = no entry
    ring,           \* the node identifiers registered with the HashRing
    removed,        \* Set<string> of nodes whose connection was lost
    down,           \* history: nodes whose latest callback was a disconnect
    ticks,          \* the populateRing runs started so far
    store,          \* primary store: records pushed under /test/<obj>
    sampledValues,  \* the Sample[] buffer
    sampleLog,      \* history: every sample ever pushed, in order
    sampler,        \* the testRing run in progress
    drift,          \* the "mismatched sample value" records logged
    clientCache,    \* part_000: {[root]: CacheEntry}, object -> index in clients, 0 = none
    ringEntries     \* part_000: the CacheEntry the ring holds for a node, as its client

vars == <<phase, serverName, adminPassword, clients, connections, ring, removed,
          down, ticks, store, sampledValues, sampleLog, sampler, drift,
          clientCache, ringEntries>>

----------------------------------------------------------------------------
(* Bounds of the model *)

\* AceBaseClient objects created in one behaviour
MaxClients == 3
\* populateRing runs started in one behaviour (they may overlap)
MaxTicks == 1
\* length of the list of test objects (7 in the source, 'a'..'g')
NumObjs == 3
\* capacity of the sample buffer (100 in the source)
SAMPLE_COUNT == 2
\* samples pushed in one behaviour
MaxSamples == 3

----------------------------------------------------------------------------
(* Values *)

\* JavaScript undefined; distinct from the string 'undefined'
Undefined == "<undefined>"

\* Object.keys(config.server), in file order
ServerNames == <<"a", "b", "c">>

ServerKeys == {ServerNames[i] : i \in 1..Len(ServerNames)}

\* values of --name tried: absent, a configured node, an unconfigured one
NameArgs == {Undefined, "b", "zz"}

\* values of DB_ADMIN_PASSWORD tried: absent, the text 'undefined', a password
PasswordEnvs == {Undefined, "undefined", "secret"}

\* every identifier connectTo can be given
AllNodes == ServerKeys \cup {"zz"}

\* the test objects of populateRing
AllObjs == <<"a", "b", "c", "d", "e", "f", "g">>

Objs == SubSeq(AllObjs, 1, NumObjs)

ObjSet == {Objs[i] : i \in 1..Len(Objs)}

\* `testing for ref ${obj}`
MsgFor(obj) ==
    CASE obj = "a" -> "testing for ref a" [] obj = "b" -> "testing for ref b"
      [] obj = "c" -> "testing for ref c" [] obj = "d" -> "testing for ref d"
      [] obj = "e" -> "testing for ref e" [] obj = "f" -> "testing for ref f"
      [] OTHER -> "testing for ref g"

\* `/test/${obj}`
ObjPath(obj) == <<"test", obj>>

\* the path of the n-th child pushed under /test/<obj>
PushPath(obj, n) == <<"test", obj, n>>

----------------------------------------------------------------------------
(* Startup, server.ts lines 10-78 *)

\* config.server[name]
ConfigEntryOf(name) ==
    IF name \in ServerKeys
        THEN [undef |-> FALSE, fields |-> {"host", "port", "https"}]
        ELSE [undef |-> TRUE, fields |-> {}]

\* { logLevel: 'warn', ...config.server[serverName] }: spreading undefined adds nothing
serverConfig(name) ==
    [undef |-> FALSE, fields |-> {"logLevel"} \cup ConfigEntryOf(name).fields]

\* adminPassword === 'undefined'
PasswordCheckFails(pw) == pw = "undefined"

\* serverName === undefined
NameCheckFails(name) == name = Undefined

\* serverConfig === undefined
ConfigCheckFails(name) == serverConfig(name).undef

StartupExits(pw, name) ==
    \/ PasswordCheckFails(pw)
    \/ NameCheckFails(name)
    \/ ConfigCheckFails(name)

Startup ==
    /\ phase = "boot"
    /\ phase' = IF StartupExits(adminPassword, serverName) THEN "exited" ELSE "running"
    /\ UNCHANGED <<clientCache, ringEntries,
                   serverName, adminPassword, clients, connections, ring, removed,
                   down, ticks, store, sampledValues, sampleLog, sampler, drift,
          clientCache, ringEntries>>

----------------------------------------------------------------------------
(* Hash ring capability (ketama HashRing): addNode, removeNode, getNode *)

RingSize == 8

NodePos(n) == CASE n = "a" -> 1 [] n = "b" -> 4 [] OTHER -> 6

KeyPos(obj) ==
    CASE obj = "a" -> 0 [] obj = "b" -> 2 [] obj = "c" -> 5 [] obj = "d" -> 7
      [] obj = "e" -> 3 [] obj = "f" -> 6 [] OTHER -> 1

\* clockwise distance from the key's point to the node's point
RingDist(path, n) == (NodePos(n) - KeyPos(path[2])) % RingSize

addNode(r, n) == r \cup {n}

removeNode(r, n) == r \ {n}

getNode(r, path) ==
    IF r = {} THEN Undefined
    ELSE CHOOSE n \in r : \A m \in r : RingDist(path, n) <= RingDist(path, m)

----------------------------------------------------------------------------
(* Connection registry, server.ts lines 80-105 *)

\* connections.has(key)
Has(key) == connections[key] # 0

\* promise is the settlement of the promise the connectTo call returned: the async
\* function resolves it with the client at `return client`, before ready() settles,
\* and no callback of ready() is chained into it
NewClient(key) == [key |-> key, status |-> "pending", promise |-> "resolved"]

\* connectTo without the connections.has(key) test
connectToAlwaysNew(cl, key) ==
    [clients |-> Append(cl, NewClient(key)), conn |-> Len(cl) + 1]

\* connectTo(key) run on the client list cl: the list afterwards and the client returned
connectTo(cl, key) ==
    IF Has(key)
        THEN [clients |-> cl, conn |-> connections[key]]
        ELSE [clients |-> Append(cl, NewClient(key)), conn |-> Len(cl) + 1]

\* ConnectReady without the connections.set(key, client) call
ConnectReadyUnregistered(c) ==
    /\ phase = "running"
    /\ c \in 1..Len(clients)
    /\ clients[c].status = "pending"
    /\ clients' = [clients EXCEPT ![c].status = "established"]
    /\ ring' = addNode(ring, clients[c].key)
    /\ down' = down \ {clients[c].key}
    /\ UNCHANGED <<clientCache, ringEntries,
                   phase, serverName, adminPassword, connections, removed, ticks,
                   store, sampledValues, sampleLog, sampler, drift>>

\* client.ready().then(..): the ready callback of client c
ConnectReady(c) ==
    /\ phase = "running"
    /\ c \in 1..Len(clients)
    /\ clients[c].status = "pending"
    /\ clients' = [clients EXCEPT ![c].status = "established"]
    /\ ring' = addNode(ring, clients[c].key)
    /\ connections' = [connections EXCEPT ![clients[c].key] = c]
    /\ down' = down \ {clients[c].key}
    /\ UNCHANGED <<clientCache, ringEntries,
                   phase, serverName, adminPassword, removed, ticks, store,
                   sampledValues, sampleLog, sampler, drift>>

\* ConnectFail with the registration done for a failed attempt as well (.finally for .then)
ConnectFailRegisters(c) ==
    /\ phase = "running"
    /\ c \in 1..Len(clients)
    /\ clients[c].status = "pending"
    /\ clients' = [clients EXCEPT ![c].status = "failed"]
    /\ ring' = addNode(ring, clients[c].key)
    /\ connections' = [connections EXCEPT ![clients[c].key] = c]
    /\ UNCHANGED <<clientCache, ringEntries,
                   phase, serverName, adminPassword, removed,
                   down, ticks, store, sampledValues, sampleLog, sampler, drift>>

\* client.ready() rejects: the catch callback only logs
ConnectFail(c) ==
    /\ phase = "running"
    /\ c \in 1..Len(clients)
    /\ clients[c].status = "pending"
    /\ clients' = [clients EXCEPT ![c].status = "failed"]
    /\ UNCHANGED <<clientCache, ringEntries,
                   phase, serverName, adminPassword, connections, ring, removed,
                   down, ticks, store, sampledValues, sampleLog, sampler, drift>>

\* Disconnect without the ring.removeNode(key) call
DisconnectKeepsRing(c) ==
    /\ phase = "running"
    /\ c \in 1..Len(clients)
    /\ clients[c].status = "established"
    /\ clients' = [clients EXCEPT ![c].status = "dropped"]
    /\ connections' = [connections EXCEPT ![clients[c].key] = 0]
    /\ removed' = removed \cup {clients[c].key}
    /\ down' = down \cup {clients[c].key}
    /\ UNCHANGED <<clientCache, ringEntries,
                   phase, serverName, adminPassword, ring, ticks, store,
                   sampledValues, sampleLog, sampler, drift>>

\* client.on('disconnect', ..): the transport of client c drops
Disconnect(c) ==
    /\ phase = "running"
    /\ c \in 1..Len(clients)
    /\ clients[c].status = "established"
    /\ clients' = [clients EXCEPT ![c].status = "dropped"]
    /\ ring' = removeNode(ring, clients[c].key)
    /\ connections' = [connections EXCEPT ![clients[c].key] = 0]
    /\ removed' = removed \cup {clients[c].key}
    /\ down' = down \cup {clients[c].key}
    /\ UNCHANGED <<clientCache, ringEntries,
                   phase, serverName, adminPassword, ticks, store,
                   sampledValues, sampleLog, sampler, drift>>

----------------------------------------------------------------------------
(* buildRing, checkRemoved, replicaFor: server.ts lines 107-142 *)

RECURSIVE buildRingFrom(_, _)
\* the loop of buildRing from the i-th server name on
buildRingFrom(cl, i) ==
    IF i > Len(ServerNames) THEN cl
    ELSE IF ServerNames[i] = serverName THEN buildRingFrom(cl, i + 1)
    ELSE buildRingFrom(connectTo(cl, serverName).clients, i + 1)

buildRing(cl) == buildRingFrom(cl, 1)

\* the keys "for (let key in removed)" visits: for..in enumerates the enumerable
\* string-keyed properties of the object, and a Set has none, whatever it holds
ForInKeys(s) == {k \in s : FALSE}

RECURSIVE connectEach(_, _)
\* connectTo(key) for every key visited
connectEach(cl, keys) ==
    IF keys = {} THEN cl
    ELSE LET k == CHOOSE x \in keys : TRUE
         IN connectEach(connectTo(cl, k).clients, keys \ {k})

\* one run of the setInterval(checkRemoved, RING_CHECK_INTERVAL) timer; connectTo
\* never rejects, so every .then callback runs and deletes its key
checkRemoved ==
    /\ phase = "running"
    /\ LET keys == ForInKeys(removed)
       IN /\ Len(connectEach(clients, keys)) <= MaxClients
          /\ clients' = connectEach(clients, keys)
          /\ removed' = removed \ keys
    /\ UNCHANGED <<clientCache, ringEntries,
                   phase, serverName, adminPassword, connections, ring, down,
                   ticks, store, sampledValues, sampleLog, sampler, drift>>

\* replicaFor with the result of connectTo not assigned to conn
replicaForUnassigned(cl, root) ==
    LET upstream == getNode(ring, root)
    IN IF upstream = Undefined
           THEN [clients |-> cl, conn |-> 0]
           ELSE [clients |-> connectTo(cl, upstream).clients, conn |-> 0]

\* replicaFor(root) run on the client list cl; conn = 0 stands for undefined
replicaFor(cl, root) ==
    LET upstream == getNode(ring, root)
    IN IF upstream = Undefined
           THEN [clients |-> cl, conn |-> 0]
           ELSE connectTo(cl, upstream)

----------------------------------------------------------------------------
(* Primary store *)

\* what client.ref(path).proxy() yields as value: the record at a pushed path, the
\* collection of children at /test/<obj> (an object keyed by push id, which has no
\* msg property), nothing where nothing was written
ValueAt(st, path) ==
    IF Len(path) = 3
        THEN IF path[3] <= st[path[2]]
                 THEN [kind |-> "record", msg |-> MsgFor(path[2])]
                 ELSE [kind |-> "null", msg |-> Undefined]
        ELSE IF st[path[2]] > 0
                 THEN [kind |-> "collection", msg |-> Undefined]
                 ELSE [kind |-> "null", msg |-> Undefined]

----------------------------------------------------------------------------
(* populateRing, server.ts lines 144-195 *)

\* arr.slice(-n), n > 0
SliceLast(arr, n) ==
    IF Len(arr) <= n THEN arr ELSE SubSeq(arr, Len(arr) - n + 1, Len(arr))

\* PushSample with slice(0, SAMPLE_COUNT) for slice(-SAMPLE_COUNT)
PushSampleKeepsFirst(arr, s) ==
    IF Len(arr) < SAMPLE_COUNT THEN Append(arr, s) ELSE SubSeq(arr, 1, SAMPLE_COUNT)

\* sampledValues.push(s); sampledValues = [...sampledValues].slice(-SAMPLE_COUNT)
PushSample(arr, s) == SliceLast(Append(arr, s), SAMPLE_COUNT)

\* the sample of the i-th object of run t; ts (new Date()) is told apart by <<t, i>>
SampleOf(t, i) ==
    [path |-> ObjPath(Objs[i]), inner |-> [msg |-> MsgFor(Objs[i]), ts |-> <<t, i>>]]

NewTick ==
    [stage |-> "ready", i |-> 1, success |-> 0, failure |-> 0, inflight |-> 0,
     emptyCalls |-> 0, reported |-> <<>>]

\* the timer fires: buildRing() runs, then the run waits for server.ready()
PopulateStart ==
    /\ phase = "running"
    /\ Len(ticks) < MaxTicks
    /\ Len(buildRing(clients)) <= MaxClients
    /\ clients' = buildRing(clients)
    /\ ticks' = Append(ticks, NewTick)
    /\ UNCHANGED <<clientCache, ringEntries,
                   phase, serverName, adminPassword, connections, ring, removed,
                   down, store, sampledValues, sampleLog, sampler, drift>>

\* server.ready() and client.ready() have resolved: the first ref.set(msg) is issued
PopulateReady(t) ==
    /\ t \in 1..Len(ticks)
    /\ ticks[t].stage = "ready"
    /\ ticks' = [ticks EXCEPT ![t].stage = "write"]
    /\ UNCHANGED <<clientCache, ringEntries,
                   phase, serverName, adminPassword, clients, connections, ring,
                   removed, down, store, sampledValues, sampleLog, sampler, drift>>

\* Routed with the failure of an unavailable replica left uncounted
RoutedUncounted(tk, conn, ringWas) ==
    [tk EXCEPT
        !.inflight = IF conn = 0 THEN @ ELSE @ + 1,
        !.emptyCalls = IF ringWas = {} THEN @ + 1 ELSE @,
        !.i = @ + 1,
        !.stage = IF tk.i = Len(Objs) THEN "count" ELSE "write"]

\* the run t after the replicaFor call of its i-th object returned conn
Routed(tk, conn, ringWas) ==
    [tk EXCEPT
        !.failure = IF conn = 0 THEN @ + 1 ELSE @,
        !.inflight = IF conn = 0 THEN @ ELSE @ + 1,
        !.emptyCalls = IF ringWas = {} THEN @ + 1 ELSE @,
        !.i = @ + 1,
        !.stage = IF tk.i = Len(Objs) THEN "count" ELSE "write"]

\* await ref.set(msg) resolves for the i-th object of run t: the record is in the
\* primary store; the sample is kept or not (Math.random() < SAMPLE_RATE); the
\* replica is looked up and the replica write started without being awaited
PopulateKey(t, keep) ==
    /\ t \in 1..Len(ticks)
    /\ ticks[t].stage = "write"
    /\ keep => Len(sampleLog) < MaxSamples
    /\ LET obj == Objs[ticks[t].i]
           s == SampleOf(t, ticks[t].i)
           r == replicaFor(clients, ObjPath(obj))
       IN /\ Len(r.clients) <= MaxClients
          /\ store' = [store EXCEPT ![obj] = @ + 1]
          /\ sampledValues' = IF keep THEN PushSample(sampledValues, s) ELSE sampledValues
          /\ sampleLog' = IF keep THEN Append(sampleLog, s) ELSE sampleLog
          \* push() grows the very array a testRing run is iterating, if that run
          \* started on the current array; the reassignment then leaves it behind
          /\ sampler' = IF keep /\ sampler.stage = "reading" /\ sampler.shared
                            THEN [sampler EXCEPT !.arr = Append(@, s), !.shared = FALSE]
                            ELSE sampler
          /\ clients' = r.clients
          /\ ticks' = [ticks EXCEPT ![t] = Routed(@, r.conn, ring)]
    /\ UNCHANGED <<clientCache, ringEntries,
                   phase, serverName, adminPassword, connections, ring, removed,
                   down, drift>>

\* await ref.set(msg) rejects: the exception ends the run
PopulateKeyFail(t) ==
    /\ t \in 1..Len(ticks)
    /\ ticks[t].stage = "write"
    /\ ticks' = [ticks EXCEPT ![t].stage = "aborted"]
    /\ UNCHANGED <<clientCache, ringEntries,
                   phase, serverName, adminPassword, clients, connections, ring,
                   removed, down, store, sampledValues, sampleLog, sampler, drift>>

\* ReplicaWrite with the rejection thrown into the run, as an awaited write would
ReplicaWriteThrows(t, ok) ==
    /\ t \in 1..Len(ticks)
    /\ ticks[t].inflight > 0
    /\ ticks' = [ticks EXCEPT ![t].inflight = @ - 1,
                              ![t].success = IF ok THEN @ + 1 ELSE @,
                              ![t].failure = IF ok THEN @ ELSE @ + 1,
                              ![t].stage = IF ok THEN @ ELSE "aborted"]
    /\ UNCHANGED <<clientCache, ringEntries,
                   phase, serverName, adminPassword, clients, connections, ring,
                   removed, down, store, sampledValues, sampleLog, sampler, drift>>

\* ReplicaWrite with the failure callback run for a fulfilled write as well
ReplicaWriteCountsBoth(t, ok) ==
    /\ t \in 1..Len(ticks)
    /\ ticks[t].inflight > 0
    /\ ticks' = [ticks EXCEPT ![t].inflight = @ - 1,
                              ![t].success = IF ok THEN @ + 1 ELSE @,
                              ![t].failure = @ + 1]
    /\ UNCHANGED <<clientCache, ringEntries,
                   phase, serverName, adminPassword, clients, connections, ring,
                   removed, down, store, sampledValues, sampleLog, sampler, drift>>

\* a replica write of run t settles: .then counts a success, .catch a failure
ReplicaWrite(t, ok) ==
    /\ t \in 1..Len(ticks)
    /\ ticks[t].inflight > 0
    /\ ticks' = [ticks EXCEPT ![t].inflight = @ - 1,
                              ![t].success = IF ok THEN @ + 1 ELSE @,
                              ![t].failure = IF ok THEN @ ELSE @ + 1]
    /\ UNCHANGED <<clientCache, ringEntries,
                   phase, serverName, adminPassword, clients, connections, ring,
                   removed, down, store, sampledValues, sampleLog, sampler, drift>>

\* both count() calls have resolved: logMsg(`new records added`, {success, failure, ..})
PopulateReport(t) ==
    /\ t \in 1..Len(ticks)
    /\ ticks[t].stage = "count"
    /\ ticks' = [ticks EXCEPT ![t].stage = "reported",
                              ![t].reported = <<ticks[t].success, ticks[t].failure>>]
    /\ UNCHANGED <<clientCache, ringEntries,
                   phase, serverName, adminPassword, clients, connections, ring,
                   removed, down, store, sampledValues, sampleLog, sampler, drift>>

----------------------------------------------------------------------------
(* testRing, server.ts lines 205-217; one run at a time is modelled *)

IdleSampler == [stage |-> "idle", arr |-> <<>>, idx |-> 1, shared |-> FALSE]

\* the timer fires: the loop starts on the current array and issues its first read
SamplerStart ==
    /\ phase = "running"
    /\ sampler.stage = "idle"
    /\ sampler' = IF sampledValues = <<>> THEN IdleSampler
                  ELSE [stage |-> "reading", arr |-> sampledValues, idx |-> 1,
                        shared |-> TRUE]
    /\ UNCHANGED <<clientCache, ringEntries,
                   phase, serverName, adminPassword, clients, connections, ring,
                   removed, down, ticks, store, sampledValues, sampleLog, drift>>

\* the sampler after the body of its loop ran for arr[idx]
SamplerNext(sm) ==
    IF sm.idx = Len(sm.arr) THEN IdleSampler ELSE [sm EXCEPT !.idx = @ + 1]

\* the mismatch record logged for a sample, if any
DriftOf(sample, val) ==
    LET vmsg == val.msg
        imsg == sample.inner.msg
    IN IF imsg # vmsg
           THEN {[path |-> sample.path, imsg |-> imsg, vmsg |-> vmsg]}
           ELSE {}

\* proxy() and proxy.value resolve for the sample at idx with a value
SamplerRead ==
    /\ sampler.stage = "reading"
    /\ LET sample == sampler.arr[sampler.idx]
           val == ValueAt(store, sample.path)
       IN /\ val.kind # "null"
          /\ drift' = drift \cup DriftOf(sample, val)
    /\ sampler' = SamplerNext(sampler)
    /\ UNCHANGED <<clientCache, ringEntries,
                   phase, serverName, adminPassword, clients, connections, ring,
                   removed, down, ticks, store, sampledValues, sampleLog>>

\* proxy() rejects, or the value is null and val.msg throws: the run ends
SamplerReadFail ==
    /\ sampler.stage = "reading"
    /\ sampler' = IdleSampler
    /\ UNCHANGED <<clientCache, ringEntries,
                   phase, serverName, adminPassword, clients, connections, ring,
                   removed, down, ticks, store, sampledValues, sampleLog, drift>>

----------------------------------------------------------------------------
(* The program *)

Init ==
    /\ phase = "boot"
    /\ serverName \in NameArgs
    /\ adminPassword \in PasswordEnvs
    /\ clients = <<>>
    /\ connections = [n \in AllNodes |-> 0]
    /\ ring = {}
    /\ removed = {}
    /\ down = {}
    /\ ticks = <<>>
    /\ store = [o \in ObjSet |-> 0]
    /\ sampledValues = <<>>
    /\ sampleLog = <<>>
    /\ sampler = IdleSampler
    /\ drift = {}
    /\ clientCache = [o \in ObjSet |-> 0]
    /\ ringEntries = [n \in AllNodes |-> 0]

Next ==
    \/ Startup
    \/ \E c \in 1..MaxClients : ConnectReady(c)
    \/ \E c \in 1..MaxClients : ConnectFail(c)
    \/ \E c \in 1..MaxClients : Disconnect(c)
    \/ checkRemoved
    \/ PopulateStart
    \/ \E t \in 1..MaxTicks : PopulateReady(t)
    \/ \E t \in 1..MaxTicks, keep \in BOOLEAN : PopulateKey(t, keep)
    \/ \E t \in 1..MaxTicks : PopulateKeyFail(t)
    \/ \E t \in 1..MaxTicks, ok \in BOOLEAN : ReplicaWrite(t, ok)
    \/ \E t \in 1..MaxTicks : PopulateReport(t)
    \/ SamplerStart
    \/ SamplerRead
    \/ SamplerReadFail

Spec == Init /\ [][Next]_vars

\* timers keep firing and pending I/O settles: no enabled step is postponed for ever
FairSpec ==
    /\ Spec
    /\ WF_vars(Next)
    /\ WF_vars(checkRemoved)
    /\ \A c \in 1..MaxClients : WF_vars(ConnectReady(c))

----------------------------------------------------------------------------
(* The cached-router variant, src/unnamed/part_000: no connectTo, no sampling;
   the ring holds CacheEntry objects {key, client} and replicaFor keeps the entry
   it found for a root in clientCache *)

\* testRing runs of the variant started in one behaviour (they may overlap)
MaxCachedTicks == 2

\* the three checks before the server is made; serverConfig is config.server[serverName]
CachedStartupExits(pw, name) ==
    \/ pw = "undefined"
    \/ name = Undefined
    \/ ConfigEntryOf(name).undef

CachedStartup ==
    /\ phase = "boot"
    /\ phase' = IF CachedStartupExits(adminPassword, serverName)
                    THEN "exited" ELSE "running"
    /\ UNCHANGED <<serverName, adminPassword, clients, connections, ring, removed,
                   down, ticks, store, sampledValues, sampleLog, sampler, drift,
                   clientCache, ringEntries>>

\* new AceBaseClient({ dbname, ...conf }); origin tells which function made it
CachedClient(key, origin) == [key |-> key, status |-> "pending", origin |-> origin]

RECURSIVE cachedBuildRingFrom(_, _)
\* the loop of buildRing from the i-th server name on
cachedBuildRingFrom(cl, i) ==
    IF i > Len(ServerNames) THEN cl
    ELSE IF ServerNames[i] = serverName \/ Has(ServerNames[i])
        THEN cachedBuildRingFrom(cl, i + 1)
    ELSE cachedBuildRingFrom(Append(cl, CachedClient(ServerNames[i], "buildRing")),
                             i + 1)

cachedBuildRing(cl) == cachedBuildRingFrom(cl, 1)

RECURSIVE reconnectEach(_, _)
\* the body of checkRemoved's loop for every key visited: a new client whose
\* ready() is awaited
reconnectEach(cl, keys) ==
    IF keys = {} THEN cl
    ELSE LET k == CHOOSE x \in keys : TRUE
         IN reconnectEach(Append(cl, CachedClient(k, "checkRemoved")), keys \ {k})

\* one run of the checkRemoved timer
CachedCheckRemoved ==
    /\ phase = "running"
    /\ LET keys == ForInKeys(removed)
       IN /\ Len(reconnectEach(clients, keys)) <= MaxClients
          /\ clients' = reconnectEach(clients, keys)
    /\ UNCHANGED <<phase, serverName, adminPassword, connections, ring, removed,
                   down, ticks, store, sampledValues, sampleLog, sampler, drift,
                   clientCache, ringEntries>>

\* client.ready() resolves: buildRing's callback adds the entry to the ring and
\* sets connections; checkRemoved adds an entry to the ring and deletes the key
\* from removed
CachedReady(c) ==
    /\ phase = "running"
    /\ c \in 1..Len(clients)
    /\ clients[c].status = "pending"
    /\ clients' = [clients EXCEPT ![c].status = "established"]
    /\ ring' = addNode(ring, clients[c].key)
    /\ ringEntries' = [ringEntries EXCEPT ![clients[c].key] = c]
    /\ connections' = IF clients[c].origin = "buildRing"
                          THEN [connections EXCEPT ![clients[c].key] = c]
                          ELSE connections
    /\ removed' = IF clients[c].origin = "checkRemoved"
                      THEN removed \ {clients[c].key}
                      ELSE removed
    /\ down' = down \ {clients[c].key}
    /\ UNCHANGED <<phase, serverName, adminPassword, ticks, store, sampledValues,
                   sampleLog, sampler, drift, clientCache>>

\* client.ready() rejects: both callers only log
CachedFail(c) ==
    /\ phase = "running"
    /\ c \in 1..Len(clients)
    /\ clients[c].status = "pending"
    /\ clients' = [clients EXCEPT ![c].status = "failed"]
    /\ UNCHANGED <<phase, serverName, adminPassword, connections, ring, removed,
                   down, ticks, store, sampledValues, sampleLog, sampler, drift,
                   clientCache, ringEntries>>

\* the 'disconnect' listener buildRing gave client c; clientCache is left as it is
CachedDisconnect(c) ==
    /\ phase = "running"
    /\ c \in 1..Len(clients)
    /\ clients[c].status = "established"
    /\ clients[c].origin = "buildRing"
    /\ clients' = [clients EXCEPT ![c].status = "dropped"]
    /\ ring' = removeNode(ring, clients[c].key)
    /\ ringEntries' = [ringEntries EXCEPT ![clients[c].key] = 0]
    /\ connections' = [connections EXCEPT ![clients[c].key] = 0]
    /\ removed' = removed \cup {clients[c].key}
    /\ down' = down \cup {clients[c].key}
    /\ UNCHANGED <<phase, serverName, adminPassword, ticks, store, sampledValues,
                   sampleLog, sampler, drift, clientCache>>

\* replicaFor(root) of the variant: the client returned (0 stands for undefined)
\* and clientCache afterwards
cachedReplicaFor(root) ==
    IF clientCache[root[2]] # 0
        THEN [client |-> clientCache[root[2]], cache |-> clientCache]
        ELSE LET upstream == getNode(ring, root)
             IN IF upstream = Undefined
                    THEN [client |-> 0, cache |-> clientCache]
                    ELSE [client |-> ringEntries[upstream],
                          cache |-> [clientCache EXCEPT
                                         ![root[2]] = ringEntries[upstream]]]

CachedTick ==
    [stage |-> "ready", i |-> 1, success |-> 0, failure |-> 0, upstream |-> 0,
     reported |-> <<>>]

\* the timer fires: buildRing() runs, then the run waits for server.ready()
CachedTickStart ==
    /\ phase = "running"
    /\ Len(ticks) < MaxCachedTicks
    /\ Len(cachedBuildRing(clients)) <= MaxClients
    /\ clients' = cachedBuildRing(clients)
    /\ ticks' = Append(ticks, CachedTick)
    /\ UNCHANGED <<phase, serverName, adminPassword, connections, ring, removed,
                   down, store, sampledValues, sampleLog, sampler, drift,
                   clientCache, ringEntries>>

\* server.ready() and client.ready() have resolved: the first ref.set(msg) is issued
CachedTickReady(t) ==
    /\ t \in 1..Len(ticks)
    /\ ticks[t].stage = "ready"
    /\ ticks' = [ticks EXCEPT ![t].stage = "write"]
    /\ UNCHANGED <<phase, serverName, adminPassword, clients, connections, ring,
                   removed, down, store, sampledValues, sampleLog, sampler, drift,
                   clientCache, ringEntries>>

\* the run after the work for its i-th object is over
CachedAdvance(tk) ==
    [tk EXCEPT !.i = @ + 1,
               !.upstream = 0,
               !.stage = IF tk.i = Len(Objs) THEN "count" ELSE "write"]

\* await ref.set(msg) resolves for the i-th object of run t; replicaFor is called;
\* without a replica the failure is counted, else the replica write is awaited
CachedKey(t) ==
    /\ t \in 1..Len(ticks)
    /\ ticks[t].stage = "write"
    /\ LET obj == Objs[ticks[t].i]
           r == cachedReplicaFor(ObjPath(obj))
       IN /\ store' = [store EXCEPT ![obj] = @ + 1]
          /\ clientCache' = r.cache
          /\ ticks' = [ticks EXCEPT ![t] =
                 IF r.client = 0
                     THEN CachedAdvance([@ EXCEPT !.failure = @ + 1])
                     ELSE [@ EXCEPT !.stage = "replica", !.upstream = r.client]]
    /\ UNCHANGED <<phase, serverName, adminPassword, clients, connections, ring,
                   removed, down, sampledValues, sampleLog, sampler, drift,
                   ringEntries>>

\* await ref.set(msg) rejects: the exception ends the run
CachedKeyFail(t) ==
    /\ t \in 1..Len(ticks)
    /\ ticks[t].stage = "write"
    /\ ticks' = [ticks EXCEPT ![t].stage = "aborted"]
    /\ UNCHANGED <<phase, serverName, adminPassword, clients, connections, ring,
                   removed, down, store, sampledValues, sampleLog, sampler, drift,
                   clientCache, ringEntries>>

\* the awaited replica write settles: success += 1, or failure += 1 in the catch
CachedReplicaDone(t, ok) ==
    /\ t \in 1..Len(ticks)
    /\ ticks[t].stage = "replica"
    /\ ticks' = [ticks EXCEPT ![t] =
           CachedAdvance([@ EXCEPT !.success = IF ok THEN @ + 1 ELSE @,
                                   !.failure = IF ok THEN @ ELSE @ + 1])]
    /\ UNCHANGED <<phase, serverName, adminPassword, clients, connections, ring,
                   removed, down, store, sampledValues, sampleLog, sampler, drift,
                   clientCache, ringEntries>>

\* console.info(`test finished; ${success} updates okay, ${failure} failed`)
CachedReport(t) ==
    /\ t \in 1..Len(ticks)
    /\ ticks[t].stage = "count"
    /\ ticks' = [ticks EXCEPT ![t].stage = "reported",
                              ![t].reported = <<ticks[t].success, ticks[t].failure>>]
    /\ UNCHANGED <<phase, serverName, adminPassword, clients, connections, ring,
                   removed, down, store, sampledValues, sampleLog, sampler, drift,
                   clientCache, ringEntries>>

CachedNext ==
    \/ CachedStartup
    \/ \E c \in 1..MaxClients : CachedReady(c)
    \/ \E c \in 1..MaxClients : CachedFail(c)
    \/ \E c \in 1..MaxClients : CachedDisconnect(c)
    \/ CachedCheckRemoved
    \/ CachedTickStart
    \/ \E t \in 1..MaxCachedTicks : CachedTickReady(t)
    \/ \E t \in 1..MaxCachedTicks : CachedKey(t)
    \/ \E t \in 1..MaxCachedTicks : CachedKeyFail(t)
    \/ \E t \in 1..MaxCachedTicks, ok \in BOOLEAN : CachedReplicaDone(t, ok)
    \/ \E t \in 1..MaxCachedTicks : CachedReport(t)

SpecCached == Init /\ [][CachedNext]_vars

----------------------------------------------------------------------------
(* Properties *)

\* the node of the client a replicaFor(`/test/${obj}`) call made now would return
RouteNode(obj) ==
    LET r == replicaFor(clients, ObjPath(obj))
    IN IF r.conn = 0 THEN Undefined ELSE r.clients[r.conn].key

ClientsOf(n, status) ==
    {c \in 1..Len(clients) : clients[c].key = n /\ clients[c].status = status}

\* C1: every node registered with the hash ring has an entry in connections, and
\* the client of that entry was made for the node and is established (ready, not
\* dropped)
C1_RingWithinLive ==
    \A n \in ring :
        /\ Has(n)
        /\ clients[connections[n]].key = n
        /\ clients[connections[n]].status = "established"

\* a node is back in the ring after one of its clients dropped
C1_Witness ==
    \E n \in ring : ClientsOf(n, "dropped") # {}

\* C2: connectTo calls made while an attempt for the same node is in flight never
\* end in two established connections for that node
C2_OneLivePerNode ==
    \A n \in AllNodes : Cardinality(ClientsOf(n, "established")) <= 1

C4_EventuallyReconciled ==
    \A n \in AllNodes : (n \in removed) ~> (n \in ring /\ n \notin removed)

\* C5: the connection replicaFor returns for a key belongs to the owner the hash
\* ring assigns to the key under the current membership (undefined exactly when
\* there is no owner), and an existing connection is returned, none is made; the
\* result is so a function of membership and key, the same for repeated calls
C5_RouteIsOwner ==
    \A o \in ObjSet :
        /\ RouteNode(o) = getNode(ring, ObjPath(o))
        /\ replicaFor(clients, ObjPath(o)).clients = clients

\* a populateRing run had all its objects routed to a replica, and the ring is
\* not empty
C5_Witness ==
    /\ ring # {}
    /\ \E t \in 1..Len(ticks) :
          /\ ticks[t].i - 1 = Len(Objs)
          /\ ticks[t].emptyCalls = 0

\* C6: as long as every replicaFor call of a populateRing run found the ring
\* empty, the run has counted one failure per object attempted and started no
\* replica write; its report then gives failure = number of objects, success = 0
C6_EmptyRingFailsEveryKey ==
    \A t \in 1..Len(ticks) :
        ticks[t].emptyCalls = ticks[t].i - 1 =>
            /\ ticks[t].failure = ticks[t].i - 1
            /\ ticks[t].success = 0
            /\ ticks[t].inflight = 0
            /\ ticks[t].stage = "reported" => ticks[t].reported = <<0, Len(Objs)>>

\* a run has reported after finding the ring empty for every object
C6_Witness ==
    \E t \in 1..Len(ticks) :
        /\ ticks[t].stage = "reported"
        /\ ticks[t].emptyCalls = Len(Objs)

\* the record written for a sample is still in the primary store with the msg kept
RecordUnchanged(d) ==
    \E n \in 1..store[d.path[2]] :
        ValueAt(store, PushPath(d.path[2], n)).msg = d.imsg

\* C7: testRing logs no mismatch for a sample whose record in the primary store
\* still holds the msg that was written
C7_NoDriftWhenUnchanged ==
    \A d \in drift : ~RecordUnchanged(d)

C9_BadNameExits ==
    (serverName = Undefined \/ serverName \notin ServerKeys) => phase # "running"

\* C10: with DB_ADMIN_PASSWORD absent, the process exits before anything else runs
C10_MissingPasswordExits ==
    adminPassword = Undefined => phase # "running"

\* C11: an error in the work for one object or one sample does not end the batch:
\* a populateRing run stopped by a failed primary write has no object left
\* unprocessed, and a testRing run ends only after the last sample of its array
C11_BatchSurvivesUnitError ==
    /\ [](\A t \in 1..Len(ticks) :
            ticks[t].stage = "aborted" => ticks[t].i = Len(Objs))
    /\ [][(sampler.stage = "reading" /\ sampler'.stage = "idle")
            => sampler.idx = Len(sampler.arr)]_vars

\* the step settles a replica write of run t as failed
ReplicaFailed(t) ==
    /\ t \in 1..Len(ticks) /\ Len(ticks') = Len(ticks)
    /\ ticks'[t].inflight = ticks[t].inflight - 1
    /\ ticks'[t].failure = ticks[t].failure + 1

\* C12: a failed replica write leaves the primary store as it is, adds exactly one
\* failure and leaves the run where it was in its loop; and a run that is about
\* to write its next object can do so whatever replica writes are still unsettled
C12_ReplicaFailureIsolated ==
    /\ [][\A t \in 1..Len(ticks) :
            ReplicaFailed(t) => /\ store' = store
                                /\ ticks'[t].stage = ticks[t].stage
                                /\ ticks'[t].i = ticks[t].i
                                /\ ticks'[t].success = ticks[t].success]_vars
    /\ [](\A t \in 1..Len(ticks) :
            ticks[t].stage = "write" => ENABLED PopulateKey(t, FALSE))

\* a run that wrote every object although a replica write had failed, with
\* another replica write still unsettled when the loop ended
C12_Witness ==
    \E t \in 1..Len(ticks) :
        /\ ticks[t].stage = "count"
        /\ ticks[t].failure > ticks[t].emptyCalls
        /\ ticks[t].inflight > 0
        /\ \A o \in ObjSet : store[o] > 0

\* C13: connectTo for a node that has a connection in the registry makes no new
\* client and returns the registered handle, an established connection to that
\* node; calling it again returns the same
C13_ConnectToLiveIdempotent ==
    \A n \in AllNodes :
        Has(n) =>
            LET r == connectTo(clients, n)
            IN /\ r.clients = clients
               /\ r.conn = connections[n]
               /\ clients[r.conn].key = n
               /\ clients[r.conn].status = "established"
               /\ connectTo(r.clients, n) = r

\* replicaFor has called connectTo for the node the ring returned, a node with a
\* registered connection, and a replica write on the handle it returned is under way
C13_Witness ==
    /\ \E n \in AllNodes : Has(n)
    /\ \E t \in 1..Len(ticks) : ticks[t].inflight > 0

\* C14: when a connection attempt fails, the connectTo call that made it has
\* rejected, so that its caller holds no handle, and the failed client is not
\* the registered handle of its node
C14_FailureSurfaced ==
    \A c \in 1..Len(clients) :
        clients[c].status = "failed" =>
            /\ clients[c].promise = "rejected"
            /\ connections[clients[c].key] # c

\* C15: a checkRemoved tick calls connectTo for every node that is in removed
\* when the tick starts
C15_TickTriesEveryRemoved ==
    phase = "running" => \A n \in removed : n \in ForInKeys(removed)

\* C16: a node in removed has no connection in the registry and is not in the ring
C16_RemovedNotLive ==
    \A n \in removed : ~Has(n) /\ n \notin ring

\* C17: the local node is never in the ring, no object is routed to it, and once
\* buildRing has run the nodes with a connection attempt are exactly the
\* configured nodes other than the local one
C17_NeverSelf ==
    phase = "running" =>
        /\ serverName \notin ring
        /\ \A o \in ObjSet : RouteNode(o) # serverName
        /\ Len(ticks) > 0 =>
               {clients[c].key : c \in 1..Len(clients)} = ServerKeys \ {serverName}

\* C18: a node leaves the connections registry and the ring only in a step in
\* which the handle registered for it drops
C18_OnlyRegisteredDropEvicts ==
    [][\A n \in AllNodes :
          (Has(n) /\ (connections'[n] = 0 \/ (n \in ring /\ n \notin ring')))
              => clients'[connections[n]].status = "dropped"]_vars

\* C19 as claimed: the success and failure counts of a report add up to the
\* number of objects of the run
C19_ReportCountsEveryKey ==
    \A t \in 1..Len(ticks) :
        ticks[t].stage = "reported" =>
            ticks[t].reported[1] + ticks[t].reported[2] = Len(Objs)

\* C19 amended: every object a run has routed is counted exactly once or has its
\* replica write still unsettled, and the counts of a report add up to the number
\* of objects less the replica writes unsettled when the report is written
C19_CountedOnceOrInFlight ==
    /\ [](\A t \in 1..Len(ticks) :
            ticks[t].success + ticks[t].failure + ticks[t].inflight = ticks[t].i - 1)
    /\ [][\A t \in 1..Len(ticks) :
            (ticks[t].stage = "count" /\ ticks'[t].stage = "reported")
                => ticks'[t].reported[1] + ticks'[t].reported[2]
                       = Len(Objs) - ticks[t].inflight]_vars

\* a report written while a replica write of the run was unsettled
C19_Witness ==
    \E t \in 1..Len(ticks) :
        /\ ticks[t].stage = "reported"
        /\ ticks[t].reported[1] + ticks[t].reported[2] < Len(Objs)

\* the step is a replicaFor call of run t of the variant that returned a client
CachedRouted(t) ==
    /\ t \in 1..Len(ticks) /\ Len(ticks') = Len(ticks)
    /\ ticks[t].stage = "write" /\ ticks'[t].stage = "replica"

\* C20: in the variant, the client a replicaFor call returns belongs to a node
\* that is in the ring at the time of the call and whose disconnect handler has
\* not run for that client
C20_CachedRouteInRing ==
    [][\A t \in 1..Len(ticks) :
          CachedRouted(t) =>
              /\ clients[ticks'[t].upstream].key \in ring
              /\ clients[ticks'[t].upstream].status # "dropped"]_vars

====
